---- MODULE Spec2Model ----
(***************************************************************************)
(* A model of dicom_contour_parser.py: the data folder scan               *)
(* (DicomContourParser.__init__, _parse, _get_valid_sids), the Record      *)
(* objects with their lazily loaded _data, and the batched iterator        *)
(* random_shuffled_iterator with its optional background loader thread.    *)
(***************************************************************************)
EXTENDS Integers, Sequences, FiniteSets, TLC

VARIABLES
    tree,           \* the data folder on disk
    parser,         \* "unbuilt", "built", "reparsed", or the exception raised
    id_list,        \* self.id_list: the (pid, oid) rows of link.csv
    recs,           \* the Record objects, by object identity
    record_list,    \* self.record_list: a list of references into recs
    call,           \* the directories handed to a direct _get_valid_sids call
    sids_res,       \* what that call returned
    async_load,     \* self.async_load
    loader_thread,  \* self.loader_thread: 0 is None, else a thread
    threads,        \* the loader threads: alive, their arguments and position
    gen,            \* the generator random_shuffled_iterator returned
    out,            \* the batch the consumer was handed last
    yielded,        \* the batches handed out by the current generator
    access          \* the last direct call of a Record method, and its outcome

buildVars == <<tree, parser, id_list, recs, record_list>>

sidsVars == <<call, sids_res>>

iterVars == <<async_load, loader_thread, threads, gen, out, yielded>>

recordVars == <<access>>

vars == <<buildVars, sidsVars, iterVars, recordVars>>

(***************************************************************************)
(* Bounds of the model.                                                    *)
(***************************************************************************)
MaxId == 3
MaxRows == 2
MaxRecords == 3
MaxBatch == 2
MaxThreads == 2
MaxCoord == 3

(***************************************************************************)
(* Small helpers.                                                          *)
(***************************************************************************)
Range(s) == {s[i] : i \in DOMAIN s}

Min(S) == CHOOSE x \in S : \A y \in S : x <= y

Max(S) == CHOOSE x \in S : \A y \in S : y <= x

RECURSIVE Concat(_)
Concat(ss) == IF ss = <<>> THEN <<>> ELSE Head(ss) \o Concat(Tail(ss))

(***************************************************************************)
(* File names.  A name is kept as the parts the three patterns look at:    *)
(* kind "dcm" is <digits>.dcm, kind "icontour" / "ocontour" is             *)
(* IM-dddd-<dddd>-icontour-*.txt, kind "other" matches no pattern.  alt    *)
(* distinguishes two spellings that carry the same number ("1.dcm" and     *)
(* "01.dcm"; two series numbers of a contour file); tail says that text    *)
(* follows the part the pattern matches ("1.dcm.bak").                     *)
(***************************************************************************)
Name(kind, id, alt, tail) == [kind |-> kind, id |-> id, alt |-> alt, tail |-> tail]

Junk == Name("other", 0, 0, FALSE)

\* '' : the filename of a modality with no file
NoFile == <<>>

\* os.path.join(directory, name)
Join(directory, name) == Append(directory, name)

\* re.match(pattern, f): no match is {}, a match is {[id, text]} with
\* id = int(match.group(1)) and text = match.group(0), the matched prefix of f
ReMatch(kind, f) ==
    IF f.kind = kind
    THEN {[id |-> f.id, text |-> [f EXCEPT !.tail = FALSE]]}
    ELSE {}

DICOM_PATTERN(f) == ReMatch("dcm", f)

ICONTOUR_PATTERN(f) == ReMatch("icontour", f)

OCONTOUR_PATTERN(f) == ReMatch("ocontour", f)

(***************************************************************************)
(* The disk.  tree.dir maps a directory path to [kind, entries]; kind is   *)
(* "missing", "file" (a regular file stands at that path) or "dir".        *)
(***************************************************************************)
PathKinds == {"missing", "file", "dir"}

Pids == {"SCD0000101", "SCD0000201"}

Oids == {"SC-HF-I-1", "SC-HF-I-2"}

DicomDir(pid) == <<"dicoms", pid>>

IContourDir(oid) == <<"contourfiles", oid, "i-contours">>

OContourDir(oid) == <<"contourfiles", oid, "o-contours">>

DirPaths == {DicomDir(p) : p \in Pids}
            \cup {IContourDir(o) : o \in Oids}
            \cup {OContourDir(o) : o \in Oids}

NoDir == [kind |-> "missing", entries |-> <<>>]

Dir(entries) == [kind |-> "dir", entries |-> entries]

\* opath.exists(path) for a directory path below the data folder
Exists(t, path) == t.dir[path].kind # "missing"

\* _list_valid_files(directory): the listed names that are regular files
\* (os.listdir raises on a path that is no directory: see ListError)
_list_valid_files(t, directory) ==
    LET es == t.dir[directory].entries
        keep == SelectSeq(es, LAMBDA e : e.isfile)
    IN  [i \in DOMAIN keep |-> keep[i].name]

ListError(t, directory) ==
    IF t.dir[directory].kind = "dir" THEN "none"
    ELSE IF t.dir[directory].kind = "file" THEN "NotADirectoryError"
    ELSE "FileNotFoundError"

(***************************************************************************)
(* dict((int(m.group(1)), m.group(0)) for m in map(match, files)           *)
(*      if m is not None), given the matches of the listed files in        *)
(* listing order: a later pair with the same key replaces an earlier one.  *)
(***************************************************************************)
DictFirstWins(matches) ==
    LET keys == UNION {{m.id : m \in matches[i]} : i \in DOMAIN matches}
        first(k) == Min({i \in DOMAIN matches : \E m \in matches[i] : m.id = k})
    IN  [k \in keys |-> (CHOOSE m \in matches[first(k)] : TRUE).text]

DictOfMatches(matches) ==
    LET keys == UNION {{m.id : m \in matches[i]} : i \in DOMAIN matches}
        last(k) == Max({i \in DOMAIN matches : \E m \in matches[i] : m.id = k})
    IN  [k \in keys |-> (CHOOSE m \in matches[last(k)] : TRUE).text]

\* sorted(list(S)) for a finite set of integers
RECURSIVE Sorted(_)
Sorted(S) == IF S = {} THEN <<>> ELSE <<Min(S)>> \o Sorted(S \ {Min(S)})

\* the ids that get a tuple: the union of the three dictionaries' keys
SidsIntersection(dicom_ids, icontour_ids, ocontour_ids) ==
    Sorted((DOMAIN dicom_ids) \cap (DOMAIN icontour_ids) \cap (DOMAIN ocontour_ids))

\* every number from 0 up to the largest key, whether a file carries it or not
SidsUpToLargest(dicom_ids, icontour_ids, ocontour_ids) ==
    Sorted(0..Max({0} \cup (DOMAIN dicom_ids) \cup (DOMAIN icontour_ids)
                      \cup (DOMAIN ocontour_ids)))

SidsUnion(dicom_ids, icontour_ids, ocontour_ids) ==
    Sorted((DOMAIN dicom_ids) \cup (DOMAIN icontour_ids) \cup (DOMAIN ocontour_ids))

\* DicomContourParser._get_valid_sids
_get_valid_sids(t, dicom_dir, icontour_dir, ocontour_dir) ==
    LET dfiles == _list_valid_files(t, dicom_dir)
        ifiles == _list_valid_files(t, icontour_dir)
        ofiles == _list_valid_files(t, ocontour_dir)
        dicom_ids == DictOfMatches([i \in DOMAIN dfiles |-> DICOM_PATTERN(dfiles[i])])
        icontour_ids == DictOfMatches([i \in DOMAIN ifiles |-> ICONTOUR_PATTERN(ifiles[i])])
        ocontour_ids == DictOfMatches([i \in DOMAIN ofiles |-> OCONTOUR_PATTERN(ofiles[i])])
        sids == SidsUnion(dicom_ids, icontour_ids, ocontour_ids)
        item(sid) ==
            <<sid,
              IF sid \in DOMAIN dicom_ids
                  THEN Join(dicom_dir, dicom_ids[sid]) ELSE NoFile,
              IF sid \in DOMAIN icontour_ids
                  THEN Join(icontour_dir, icontour_ids[sid]) ELSE NoFile,
              IF sid \in DOMAIN ocontour_ids
                  THEN Join(ocontour_dir, ocontour_ids[sid]) ELSE NoFile>>
    IN  [i \in DOMAIN sids |-> item(sids[i])]

(***************************************************************************)
(* File contents, as far as the loaders tell them apart.                   *)
(***************************************************************************)
ImageBody(h, w) == [form |-> "image", h |-> h, w |-> w, pts |-> <<>>]

ContourBody(pts) == [form |-> "contour", h |-> 0, w |-> 0, pts |-> pts]

Garbage == [form |-> "garbage", h |-> 0, w |-> 0, pts |-> <<>>]

NotDicom == [form |-> "notdicom", h |-> 0, w |-> 0, pts |-> <<>>]

File(name, body) == [name |-> name, isfile |-> TRUE, body |-> body]

SubDir(name) == [name |-> name, isfile |-> FALSE, body |-> Garbage]

\* the regular files found at a path: at most one
ReadFile(t, path) ==
    LET directory == SubSeq(path, 1, Len(path) - 1)
        es == t.dir[directory].entries
    IN  {es[i].body : i \in {j \in DOMAIN es : es[j].isfile /\ es[j].name = path[Len(path)]}}

(***************************************************************************)
(* Pixel grids: numpy arrays, kept as dtype, shape and what fills them.    *)
(***************************************************************************)
NoneGrid == [dtype |-> "None", shape |-> <<>>, fill |-> "none", path |-> NoFile, poly |-> <<>>]

Pixels(path, h, w) ==
    [dtype |-> "int16", shape |-> <<h, w>>, fill |-> "pixels", path |-> path, poly |-> <<>>]

Zeros(shape, dtype) ==
    [dtype |-> dtype, shape |-> shape, fill |-> "zeros", path |-> NoFile, poly |-> <<>>]

\* parsing.parse_dicom_file: the pixel data, None for a file that is no
\* DICOM file, or an exception
parse_dicom_file(t, filename) ==
    LET found == ReadFile(t, filename)
        body == CHOOSE b \in found : TRUE
    IN  IF found = {} THEN [exc |-> "FileNotFoundError", val |-> NoneGrid]
        ELSE IF body.form = "image"
            THEN [exc |-> "none", val |-> Pixels(filename, body.h, body.w)]
        ELSE IF body.form = "notdicom" THEN [exc |-> "none", val |-> NoneGrid]
        ELSE [exc |-> "DecodeError", val |-> NoneGrid]

\* parsing.parse_contour_file: the list of (x, y) vertices, or an exception
parse_contour_file(t, filename) ==
    LET found == ReadFile(t, filename)
        body == CHOOSE b \in found : TRUE
    IN  IF found = {} THEN [exc |-> "FileNotFoundError", val |-> <<>>]
        ELSE IF body.form = "contour" THEN [exc |-> "none", val |-> body.pts]
        ELSE [exc |-> "MalformedContourFile", val |-> <<>>]

\* parsing.poly_to_mask(polygon, width, height): a boolean grid of
\* height x width, true inside the polygon
poly_to_mask(polygon, width, height) ==
    [dtype |-> "bool", shape |-> <<height, width>>, fill |-> "mask",
     path |-> NoFile, poly |-> polygon]

\* round(v) of Python 3 for v >= 0 given in halves: a tie goes to the even
\* integer
PyRound(k) ==
    IF k % 2 = 0 THEN k \div 2
    ELSE IF (k \div 2) % 2 = 0 THEN k \div 2 ELSE (k \div 2) + 1

\* the (height, width) the contour branch hands on when there is no image;
\* the coordinates of a vertex are floats, kept in halves
ContourShape(polygon) ==
    LET max_x == Max({0} \cup {polygon[i][1] : i \in DOMAIN polygon})
        max_y == Max({0} \cup {polygon[i][2] : i \in DOMAIN polygon})
    IN  <<PyRound(max_x + 2), PyRound(max_y + 2)>>

\* the arguments of the call parsing.poly_to_mask(path, width, height)
RasterArgsSwapped(polygon, dicom_data) ==
    LET shape == IF dicom_data # NoneGrid THEN dicom_data.shape
                 ELSE ContourShape(polygon)
    IN  [polygon |-> polygon, width |-> shape[1], height |-> shape[2]]

RasterArgs(polygon, dicom_data) ==
    LET shape == IF dicom_data # NoneGrid THEN dicom_data.shape
                 ELSE ContourShape(polygon)
    IN  [polygon |-> polygon, width |-> shape[2], height |-> shape[1]]

\* one contour branch of _parse_dicom_and_contour_files
ContourData(t, filename, dicom_data) ==
    LET path == parse_contour_file(t, filename)
        args == RasterArgs(path.val, dicom_data)
    IN  IF filename = NoFile THEN [exc |-> "none", val |-> NoneGrid]
        ELSE IF path.exc # "none" THEN [exc |-> path.exc, val |-> NoneGrid]
        ELSE [exc |-> "none", val |-> poly_to_mask(args.polygon, args.width, args.height)]

\* the calls of parsing.poly_to_mask that one contour branch makes
RasterCall(t, filename, dicom_data) ==
    IF filename = NoFile \/ parse_contour_file(t, filename).exc # "none" THEN <<>>
    ELSE <<RasterArgs(parse_contour_file(t, filename).val, dicom_data)>>

\* the calls of parsing.poly_to_mask that _parse_dicom_and_contour_files
\* makes, in order, up to its return or the exception that ends it
RasterCalls(t, filenames) ==
    LET dicom == IF filenames[1] # NoFile THEN parse_dicom_file(t, filenames[1])
                 ELSE [exc |-> "none", val |-> NoneGrid]
    IN  IF dicom.exc # "none" THEN <<>>
        ELSE IF ContourData(t, filenames[2], dicom.val).exc # "none" THEN <<>>
        ELSE RasterCall(t, filenames[2], dicom.val) \o RasterCall(t, filenames[3], dicom.val)

\* _parse_dicom_and_contour_files(filenames): [exc, val], val the 3-tuple
_parse_dicom_and_contour_files(t, filenames) ==
    LET dicom == IF filenames[1] # NoFile THEN parse_dicom_file(t, filenames[1])
                 ELSE [exc |-> "none", val |-> NoneGrid]
        icontour == ContourData(t, filenames[2], dicom.val)
        ocontour == ContourData(t, filenames[3], dicom.val)
    IN  IF dicom.exc # "none" THEN [exc |-> dicom.exc, val |-> <<>>]
        ELSE IF icontour.exc # "none" THEN [exc |-> icontour.exc, val |-> <<>>]
        ELSE IF ocontour.exc # "none" THEN [exc |-> ocontour.exc, val |-> <<>>]
        ELSE IF dicom.val # NoneGrid
            THEN [exc |-> "none",
                  val |-> <<dicom.val,
                            IF icontour.val = NoneGrid
                                THEN Zeros(dicom.val.shape, "bool") ELSE icontour.val,
                            IF ocontour.val = NoneGrid
                                THEN Zeros(dicom.val.shape, "bool") ELSE ocontour.val>>]
        ELSE IF icontour.val # NoneGrid \/ ocontour.val # NoneGrid
            \* np.zeors: numpy has no such attribute
            THEN [exc |-> "AttributeError", val |-> <<>>]
        ELSE [exc |-> "none", val |-> <<NoneGrid, NoneGrid, NoneGrid>>]

(***************************************************************************)
(* Record.                                                                 *)
(***************************************************************************)
\* self._data = None
None == <<>>

\* no Record method has been called directly
NoAccess ==
    [op |-> "none", r |-> 0, exc |-> "none", loads |-> 0, ret |-> None, raster |-> <<>>]

Record(patient_id, original_id, serial_id, filenames) ==
    [patient_id |-> patient_id, original_id |-> original_id,
     serial_id |-> serial_id, filenames |-> filenames, _data |-> None]

has_dicom(r) == r.filenames[1] # NoFile

has_icontour(r) == r.filenames[2] # NoFile

has_ocontour(r) == r.filenames[3] # NoFile

(***************************************************************************)
(* DicomContourParser.__init__ and _parse.                                 *)
(***************************************************************************)
IsDirKind(k) == k = "dir"

IsFileKind(k) == k = "file"

ExistsKind(k) == k # "missing"

\* the test that raises InvalidDataFolder
InvalidFolderContoursUnchecked(t) ==
    \/ ~ExistsKind(t.root) \/ ~IsDirKind(t.root)
    \/ ~ExistsKind(t.link) \/ ~IsFileKind(t.link)
    \/ ~ExistsKind(t.dicoms) \/ ~IsDirKind(t.dicoms)

InvalidFolder(t) ==
    \/ ~ExistsKind(t.root) \/ ~IsDirKind(t.root)
    \/ ~ExistsKind(t.link) \/ ~IsFileKind(t.link)
    \/ ~ExistsKind(t.dicoms) \/ ~IsDirKind(t.dicoms)
    \/ ~ExistsKind(t.contours) \/ ~IsDirKind(t.contours)

\* the rows read from link.csv until one does not unpack into (pid, oid)
RECURSIVE ReadRows(_)
ReadRows(rows) ==
    IF rows = <<>> THEN [exc |-> "none", ids |-> <<>>]
    ELSE IF Len(Head(rows)) # 2 THEN [exc |-> "ValueError", ids |-> <<>>]
    ELSE LET rest == ReadRows(Tail(rows))
         IN  [exc |-> rest.exc, ids |-> <<Head(rows)>> \o rest.ids]

\* next(reader) on a file with no line raises StopIteration
ReadLink(text) ==
    IF ~text.header THEN [exc |-> "StopIteration", ids |-> <<>>]
    ELSE ReadRows(text.rows)

\* the test that makes _parse skip an id item
SkipItemAllMissing(t, pid, oid) ==
    /\ ~Exists(t, DicomDir(pid))
    /\ ~Exists(t, IContourDir(oid))
    /\ ~Exists(t, OContourDir(oid))

SkipItem(t, pid, oid) ==
    \/ ~Exists(t, DicomDir(pid))
    \/ ~Exists(t, IContourDir(oid))
    \/ ~Exists(t, OContourDir(oid))

\* the first directory of an item that os.listdir refuses
ItemListError(t, pid, oid) ==
    IF ListError(t, DicomDir(pid)) # "none" THEN ListError(t, DicomDir(pid))
    ELSE IF ListError(t, IContourDir(oid)) # "none" THEN ListError(t, IContourDir(oid))
    ELSE ListError(t, OContourDir(oid))

\* the records one id item adds
Fragment(t, pid, oid) ==
    LET sids == _get_valid_sids(t, DicomDir(pid), IContourDir(oid), OContourDir(oid))
    IN  [i \in DOMAIN sids |->
            Record(pid, oid, sids[i][1], <<sids[i][2], sids[i][3], sids[i][4]>>)]

\* _parse over the items from the given one on: [exc, recs]
RECURSIVE ParseItems(_, _)
ParseItems(t, ids) ==
    IF ids = <<>> THEN [exc |-> "none", recs |-> <<>>]
    ELSE LET pid == Head(ids)[1]
             oid == Head(ids)[2]
             rest == ParseItems(t, Tail(ids))
         IN  IF SkipItem(t, pid, oid) THEN rest
             ELSE IF ItemListError(t, pid, oid) # "none"
                 THEN [exc |-> ItemListError(t, pid, oid), recs |-> <<>>]
             ELSE [exc |-> rest.exc, recs |-> Fragment(t, pid, oid) \o rest.recs]

\* self.record_list = []
KeepList(old) == old

ResetList(old) == <<>>

\* _parse, old the records the list held before: [exc, recs]
_parse(t, ids, old) ==
    LET parsed == ParseItems(t, ids)
    IN  [exc |-> parsed.exc, recs |-> ResetList(old) \o parsed.recs]

\* __init__ as a whole: what it raises, and the fields it leaves
__init__(t) ==
    LET link == ReadLink(t.link_text)
        parsed == _parse(t, link.ids, <<>>)
    IN  IF InvalidFolder(t)
            THEN [exc |-> "InvalidDataFolder", id_list |-> <<>>, recs |-> <<>>]
        ELSE IF link.exc # "none"
            THEN [exc |-> link.exc, id_list |-> link.ids, recs |-> <<>>]
        ELSE [exc |-> parsed.exc, id_list |-> link.ids, recs |-> parsed.recs]

\* DicomContourParser(path_to_data)
Construct ==
    /\ parser = "unbuilt"
    /\ LET res == __init__(tree)
       IN  /\ parser' = (IF res.exc = "none" THEN "built" ELSE res.exc)
           /\ id_list' = res.id_list
           /\ recs' = res.recs
           /\ record_list' = [i \in DOMAIN res.recs |-> i]
    /\ UNCHANGED tree

\* parser._parse() run again on the constructed parser
Reparse ==
    /\ parser \in {"built", "reparsed"}
    /\ LET res == _parse(tree, id_list, recs)
       IN  /\ parser' = (IF res.exc = "none" THEN "reparsed" ELSE res.exc)
           /\ recs' = res.recs
           /\ record_list' = [i \in DOMAIN res.recs |-> i]
    /\ UNCHANGED <<tree, id_list>>

\* a direct call of _get_valid_sids on three listed directories
CallGetValidSids ==
    /\ call = <<>>
    /\ \E p \in Pids, o \in Oids :
        /\ ListError(tree, DicomDir(p)) = "none"
        /\ ListError(tree, IContourDir(o)) = "none"
        /\ ListError(tree, OContourDir(o)) = "none"
        /\ call' = <<DicomDir(p), IContourDir(o), OContourDir(o)>>
        /\ sids_res' = _get_valid_sids(tree, DicomDir(p), IContourDir(o), OContourDir(o))

(***************************************************************************)
(* The data folders the checks start from.                                 *)
(***************************************************************************)
MkTree(root, link, dicoms, contours, text, dirs) ==
    [root |-> root, link |-> link, dicoms |-> dicoms, contours |-> contours,
     link_text |-> text, dir |-> dirs]

AllMissing == [d \in DirPaths |-> NoDir]

Pid1 == "SCD0000101"

Oid1 == "SC-HF-I-1"

\* the vertices (0, 0), (1, 0), (0, 1)
Triangle == <<<<0, 0>>, <<2, 0>>, <<0, 2>>>>

DefaultBody(kind) == IF kind = "dcm" THEN ImageBody(2, 3) ELSE ContourBody(Triangle)

\* the files numbered by S, listed in ascending order
Base(kind, S) ==
    LET ids == Sorted(S)
    IN  [i \in DOMAIN ids |-> File(Name(kind, ids[i], 0, FALSE), DefaultBody(kind))]

Reverse(s) == [i \in DOMAIN s |-> s[Len(s) + 1 - i]]

\* what else a listing may hold: a second file with number 1 listed first or
\* last, a file no pattern matches, a sub-directory with a matching name, a
\* file with text after the matched part; or the files in descending order
Extras == {"none", "dupFirst", "dupLast", "junk", "subdir", "tail", "reversed"}

Listing(kind, S, x) ==
    LET dup == File(Name(kind, 1, 1, FALSE), DefaultBody(kind))
    IN  CASE x = "dupFirst" -> <<dup>> \o Base(kind, S)
          [] x = "dupLast" -> Base(kind, S) \o <<dup>>
          [] x = "junk" -> <<File(Junk, Garbage)>> \o Base(kind, S)
          [] x = "subdir" -> Base(kind, S) \o <<SubDir(Name(kind, MaxId, 1, FALSE))>>
          [] x = "tail" -> Base(kind, S) \o <<File(Name(kind, 1, 0, TRUE), DefaultBody(kind))>>
          [] x = "reversed" -> Reverse(Base(kind, S))
          [] OTHER -> Base(kind, S)

Modalities == {"dcm", "icontour", "ocontour"}

\* one item's three directories, one of them with something extra
SidsDirs ==
    {[d \in DirPaths |->
        IF d = DicomDir(Pid1)
            THEN Dir(Listing("dcm", D, IF m = "dcm" THEN x ELSE "none"))
        ELSE IF d = IContourDir(Oid1)
            THEN Dir(Listing("icontour", I, IF m = "icontour" THEN x ELSE "none"))
        ELSE IF d = OContourDir(Oid1)
            THEN Dir(Listing("ocontour", O, IF m = "ocontour" THEN x ELSE "none"))
        ELSE NoDir] :
     D \in SUBSET (1..MaxId), I \in SUBSET (1..MaxId), O \in SUBSET (1..MaxId),
     m \in Modalities, x \in Extras}

OneRow == [header |-> TRUE, rows |-> <<<<Pid1, Oid1>>>>]

SidsDisks == {MkTree("dir", "file", "dir", "dir", OneRow, d) : d \in SidsDirs}

\* link.csv: no line at all, a header alone, rows, a row with one field
Pairs == Pids \X Oids

RowLists == UNION {[1..n -> Pairs] : n \in 0..MaxRows}

LinkTexts ==
    {[header |-> FALSE, rows |-> <<>>]}
    \cup {[header |-> TRUE, rows |-> r] : r \in RowLists}
    \cup {[header |-> TRUE, rows |-> <<<<Pid1, Oid1>>, <<Pid1>>>>]}

\* directories below dicoms/ and contourfiles/: present or not, and a
\* regular file where a patient's image directory should be
BuildDirs ==
    {[d \in DirPaths |->
        IF d[1] = "dicoms" THEN dk[d[2]]
        ELSE IF d[3] = "i-contours" THEN ik[d[2]] ELSE ok[d[2]]] :
     dk \in [Pids -> {NoDir, [kind |-> "file", entries |-> <<>>],
                      Dir(Listing("dcm", {1, 2}, "none"))}],
     ik \in [Oids -> {NoDir, Dir(Listing("icontour", {2}, "none"))}],
     ok \in [Oids -> {NoDir, Dir(Listing("ocontour", {2, 3}, "none"))}]}

BuildDisks ==
    {MkTree("dir", "file", "dir", "dir", text, d) : text \in LinkTexts, d \in BuildDirs}
    \cup {MkTree(root, "missing", "missing", "missing", OneRow, AllMissing) :
            root \in {"missing", "file"}}
    \cup {MkTree("dir", link, dicoms, contours, OneRow, AllMissing) :
            link \in PathKinds, dicoms \in PathKinds, contours \in PathKinds}

(***************************************************************************)
(* The specification of the folder scan: any data folder, then             *)
(* DicomContourParser(path_to_data), then _parse as often as one likes.    *)
(***************************************************************************)
InitBuild ==
    /\ tree \in BuildDisks
    /\ parser = "unbuilt"
    /\ id_list = <<>>
    /\ recs = <<>>
    /\ record_list = <<>>
    /\ call = <<>>
    /\ sids_res = <<>>
    /\ async_load = FALSE
    /\ loader_thread = 0
    /\ threads = [tid \in 1..MaxThreads |-> [alive |-> FALSE, i |-> 0, high |-> 0, busy |-> 0]]
    /\ gen = [pc |-> "none"]
    /\ out = <<>>
    /\ yielded = <<>>
    /\ access = NoAccess

NextBuild == (Construct \/ Reparse) /\ UNCHANGED <<sidsVars, recordVars, iterVars>>

SpecBuild == InitBuild /\ [][NextBuild]_vars

(***************************************************************************)
(* The specification of _get_valid_sids alone: any three listings, then    *)
(* the call.                                                               *)
(***************************************************************************)
InitSids ==
    /\ tree \in SidsDisks
    /\ parser = "unbuilt"
    /\ id_list = <<>>
    /\ recs = <<>>
    /\ record_list = <<>>
    /\ call = <<>>
    /\ sids_res = <<>>
    /\ async_load = FALSE
    /\ loader_thread = 0
    /\ threads = [tid \in 1..MaxThreads |-> [alive |-> FALSE, i |-> 0, high |-> 0, busy |-> 0]]
    /\ gen = [pc |-> "none"]
    /\ out = <<>>
    /\ yielded = <<>>
    /\ access = NoAccess

NextSids == CallGetValidSids /\ UNCHANGED <<buildVars, iterVars, recordVars>>

SpecSids == InitSids /\ [][NextSids]_vars

(***************************************************************************)
(* Record.load_data and Record.clear_data on the object r of the heap.     *)
(***************************************************************************)
SetData(heap, r, val) == [heap EXCEPT ![r]._data = val]

ClearNothing(heap, r) == heap

clear_data(heap, r) == SetData(heap, r, None)

\* _prepare_batch_data(low, high) run to its end or to the first exception,
\* from index i on (0-based, as in the source): [exc, recs]
RECURSIVE PrepareFrom(_, _, _, _, _)
PrepareFrom(t, heap, list, i, high) ==
    IF i >= high THEN [exc |-> "none", recs |-> heap]
    ELSE LET r == list[i + 1]
             res == _parse_dicom_and_contour_files(t, heap[r].filenames)
         IN  IF res.exc # "none" THEN [exc |-> res.exc, recs |-> heap]
             ELSE PrepareFrom(t, SetData(heap, r, res.val), list, i + 1, high)

ClampLow(low) == IF low > 0 THEN low ELSE 0

ClampHigh(high, list) == IF high < Len(list) THEN high ELSE Len(list)

_prepare_batch_data(t, heap, list, low, high) ==
    PrepareFrom(t, heap, list, ClampLow(low), ClampHigh(high, list))

(***************************************************************************)
(* The loader threads.                                                     *)
(***************************************************************************)
ThreadIds == 1..MaxThreads

NoThread == [alive |-> FALSE, i |-> 0, high |-> 0, busy |-> 0]

Running == {tid \in ThreadIds : threads[tid].alive}

\* the thread picks self.record_list[i] and calls its load_data
WorkerPick(tid) ==
    /\ threads[tid].alive
    /\ threads[tid].busy = 0
    /\ threads' = [threads EXCEPT ![tid].busy = record_list[threads[tid].i + 1]]
    /\ UNCHANGED <<buildVars, sidsVars, recordVars, async_load, loader_thread, gen, out, yielded>>

\* load_data returns, or raises: an exception ends the thread, and nobody
\* is told
WorkerLoad(tid) ==
    /\ threads[tid].alive
    /\ threads[tid].busy # 0
    /\ LET th == threads[tid]
           res == _parse_dicom_and_contour_files(tree, recs[th.busy].filenames)
       IN  IF res.exc # "none"
           THEN /\ threads' = [threads EXCEPT ![tid] = NoThread]
                /\ recs' = recs
           ELSE /\ recs' = SetData(recs, th.busy, res.val)
                /\ threads' = [threads EXCEPT ![tid] =
                        IF th.i + 1 < th.high
                        THEN [th EXCEPT !.i = th.i + 1, !.busy = 0]
                        ELSE NoThread]
    /\ UNCHANGED <<tree, parser, id_list, record_list>>
    /\ UNCHANGED <<sidsVars, recordVars, async_load, loader_thread, gen, out, yielded>>

\* if self.loader_thread is not None: self.loader_thread.join()
JoinSkipped == TRUE

Joinable == IF loader_thread = 0 THEN TRUE ELSE ~threads[loader_thread].alive

\* Thread(target=self._prepare_batch_data, args=(low, high)).start()
StartThread(low, high) ==
    /\ ThreadIds \ Running # {}
    /\ LET tid == Min(ThreadIds \ Running)
           lo == ClampLow(low)
           hi == ClampHigh(high, record_list)
       IN  /\ threads' = [threads EXCEPT ![tid] =
                    IF lo < hi THEN [alive |-> TRUE, i |-> lo, high |-> hi, busy |-> 0]
                    ELSE NoThread]
           /\ loader_thread' = tid

\* _async_prepare_batch_data(low, high)
_async_prepare_batch_data(low, high) ==
    /\ Joinable
    /\ StartThread(low, high)

(***************************************************************************)
(* The generator.  Indices are 0-based as in the source; pc is the place   *)
(* the generator's frame stands at.                                        *)
(***************************************************************************)
NoGen ==
    [pc |-> "none", batch_size |-> 0, tag_records |-> FALSE, num_records |-> 0,
     low |-> 0, high |-> 0, prepared_batch |-> None, i |-> 0, last |-> FALSE,
     exc |-> "none", clean |-> FALSE]

\* '{}:{}:{:06d}'.format(r.patient_id, r.original_id, r.serial_id)
Tag(r) == <<r.patient_id, r.original_id, r.serial_id>>

\* map_func
map_func(tag_records, r) == IF tag_records THEN <<Tag(r), r._data>> ELSE r._data

\* self.record_list[l:h]
SliceInclusive(list, l, h) ==
    LET lo == ClampLow(l)
        hi == ClampHigh(h + 1, list)
    IN  IF lo < hi THEN [k \in 1..(hi - lo) |-> list[lo + k]] ELSE <<>>

Slice(list, l, h) ==
    LET lo == ClampLow(l)
        hi == ClampHigh(h, list)
    IN  IF lo < hi THEN [k \in 1..(hi - lo) |-> list[lo + k]] ELSE <<>>

\* list(map(map_func, self.record_list[l:h])), with the objects it was made of
Batch(l, h) ==
    LET refs == Slice(record_list, l, h)
    IN  [refs |-> refs,
         items |-> [k \in DOMAIN refs |-> map_func(gen.tag_records, recs[refs[k]])]]

NoBatch == [refs |-> <<>>, items |-> <<>>]

AllUnloaded == \A r \in DOMAIN recs : recs[r]._data = None

\* the consumer calls parser.random_shuffled_iterator(batch_size, tag_records)
NewPass ==
    /\ parser = "built"
    /\ gen.pc \in {"none", "done", "raised", "closed"}
    /\ \E b \in 1..MaxBatch, tg \in BOOLEAN :
        gen' = [NoGen EXCEPT !.pc = "created", !.batch_size = b, !.tag_records = tg]
    /\ out' = NoBatch
    /\ yielded' = <<>>
    /\ UNCHANGED <<buildVars, sidsVars, recordVars, async_load, loader_thread, threads>>

\* the frame after random.shuffle and lines 303-304, at the head of the loop
LoopEntry(g) ==
    [g EXCEPT !.pc = "loop", !.num_records = Len(record_list),
              !.prepared_batch = None, !.low = 0, !.i = 0]

\* the first next(): random.shuffle begins (x[i], x[j] = x[j], x[i] for i
\* from the last index down to 1, j drawn from 0..i)
Begin ==
    /\ gen.pc = "created"
    /\ gen' = IF Len(record_list) >= 2
              THEN [gen EXCEPT !.pc = "shuffle", !.i = Len(record_list) - 1,
                               !.clean = AllUnloaded]
              ELSE LoopEntry([gen EXCEPT !.clean = AllUnloaded])
    /\ UNCHANGED <<buildVars, sidsVars, recordVars, async_load, loader_thread, threads, out, yielded>>

Swap(list, i, j) == [list EXCEPT ![i + 1] = list[j + 1], ![j + 1] = list[i + 1]]

ShuffleStep ==
    /\ gen.pc = "shuffle"
    /\ \E j \in 0..gen.i : record_list' = Swap(record_list, gen.i, j)
    /\ gen' = IF gen.i > 1 THEN [gen EXCEPT !.i = gen.i - 1] ELSE LoopEntry(gen)
    /\ UNCHANGED <<tree, parser, id_list, recs>>
    /\ UNCHANGED <<sidsVars, recordVars, async_load, loader_thread, threads, out, yielded>>

NextHigh == IF gen.low + gen.batch_size < gen.num_records
            THEN gen.low + gen.batch_size ELSE gen.num_records

\* lines 305-310, synchronous: the batch is loaded in the consumer's thread
LoopSync ==
    /\ gen.pc = "loop"
    /\ gen.low < gen.num_records
    /\ ~async_load
    /\ LET res == _prepare_batch_data(tree, recs, record_list, gen.low, NextHigh)
       IN  /\ recs' = res.recs
           /\ gen' = IF res.exc = "none"
                     THEN [gen EXCEPT !.pc = "emit", !.high = NextHigh]
                     ELSE [gen EXCEPT !.pc = "raised", !.exc = res.exc]
    /\ UNCHANGED <<tree, parser, id_list, record_list>>
    /\ UNCHANGED <<sidsVars, recordVars, async_load, loader_thread, threads, out, yielded>>

\* lines 305-308, asynchronous: join the previous thread, start the next
LoopAsync ==
    /\ gen.pc = "loop"
    /\ gen.low < gen.num_records
    /\ async_load
    /\ _async_prepare_batch_data(gen.low, NextHigh)
    /\ gen' = [gen EXCEPT !.pc = "emit", !.high = NextHigh]
    /\ UNCHANGED <<buildVars, sidsVars, recordVars, async_load, out, yielded>>

\* the range is exhausted
LoopEnd ==
    /\ gen.pc = "loop"
    /\ gen.low >= gen.num_records
    /\ gen' = [gen EXCEPT !.pc = "final"]
    /\ UNCHANGED <<buildVars, sidsVars, recordVars, async_load, loader_thread, threads, out, yielded>>

\* lines 311-315: yield the batch prepared one round earlier, if any
Emit ==
    /\ gen.pc = "emit"
    /\ IF gen.prepared_batch # None
       THEN /\ out' = Batch(gen.prepared_batch[1], gen.prepared_batch[2])
            /\ yielded' = Append(yielded, out')
            /\ gen' = [gen EXCEPT !.pc = "yielded", !.last = FALSE]
       ELSE /\ gen' = [gen EXCEPT !.pc = "loop", !.prepared_batch = <<gen.low, gen.high>>,
                                  !.low = gen.low + gen.batch_size]
            /\ UNCHANGED <<out, yielded>>
    /\ UNCHANGED <<buildVars, sidsVars, recordVars, async_load, loader_thread, threads>>

\* the frame once _invalidate_batch_data(l, h) has returned
AfterInvalidate(g) ==
    IF g.last THEN [g EXCEPT !.pc = "done", !.i = 0]
    ELSE [g EXCEPT !.pc = "loop", !.prepared_batch = <<g.low, g.high>>,
                   !.low = g.low + g.batch_size, !.i = 0]

\* the consumer asks for the next batch: the generator resumes after its
\* yield and enters _invalidate_batch_data(l, h)
ResumeCurrent ==
    /\ gen.pc = "yielded"
    /\ LET lo == ClampLow(gen.low)
           hi == ClampHigh(gen.high, record_list)
       IN  gen' = IF lo < hi THEN [gen EXCEPT !.pc = "invalidate", !.i = lo]
                  ELSE AfterInvalidate(gen)
    /\ UNCHANGED <<buildVars, sidsVars, recordVars, async_load, loader_thread, threads, out, yielded>>

Resume ==
    /\ gen.pc = "yielded"
    /\ LET lo == ClampLow(gen.prepared_batch[1])
           hi == ClampHigh(gen.prepared_batch[2], record_list)
       IN  gen' = IF lo < hi THEN [gen EXCEPT !.pc = "invalidate", !.i = lo]
                  ELSE AfterInvalidate(gen)
    /\ UNCHANGED <<buildVars, sidsVars, recordVars, async_load, loader_thread, threads, out, yielded>>

\* a list whose entries are read through the records they came from
ListOfRecords(batch, heap) ==
    [batch EXCEPT !.items =
        [k \in DOMAIN batch.refs |-> map_func(gen.tag_records, heap[batch.refs[k]])]]

\* the list built at the yield (list(map(map_func, ...))) once the heap has
\* become heap: its entries are the objects that r._data referred to when
\* map_func ran, and self._data = None rebinds the attribute of the record
\* and leaves those objects as they are
ListAfterClear(batch, heap) == batch

\* self.record_list[i].clear_data() for the next i of the range
InvalidateStep ==
    /\ gen.pc = "invalidate"
    /\ recs' = clear_data(recs, record_list[gen.i + 1])
    /\ out' = ListAfterClear(out, recs')
    /\ gen' = IF gen.i + 1 < ClampHigh(gen.prepared_batch[2], record_list)
              THEN [gen EXCEPT !.i = gen.i + 1]
              ELSE AfterInvalidate(gen)
    /\ UNCHANGED <<tree, parser, id_list, record_list>>
    /\ UNCHANGED <<sidsVars, recordVars, async_load, loader_thread, threads, yielded>>

\* if self.async_load and self.loader_thread is not None: join
FinalJoinSkipped == TRUE

FinalJoin == IF async_load THEN Joinable ELSE TRUE

\* lines 316-320: join the last thread, yield the last batch
FinalNoYield ==
    /\ gen.pc = "final"
    /\ FinalJoin
    /\ gen' = [gen EXCEPT !.pc = "done"]
    /\ UNCHANGED <<buildVars, sidsVars, recordVars, async_load, loader_thread, threads, out, yielded>>

Final ==
    /\ gen.pc = "final"
    /\ FinalJoin
    /\ IF gen.prepared_batch # None
       THEN /\ out' = Batch(gen.prepared_batch[1], gen.prepared_batch[2])
            /\ yielded' = Append(yielded, out')
            /\ gen' = [gen EXCEPT !.pc = "yielded", !.last = TRUE]
       ELSE /\ gen' = [gen EXCEPT !.pc = "done"]
            /\ UNCHANGED <<out, yielded>>
    /\ UNCHANGED <<buildVars, sidsVars, recordVars, async_load, loader_thread, threads>>

\* the consumer leaves its loop and drops the generator: GeneratorExit at
\* the yield, and nothing after it runs
Abandon ==
    /\ gen.pc = "yielded"
    /\ gen' = [gen EXCEPT !.pc = "closed"]
    /\ UNCHANGED <<buildVars, sidsVars, recordVars, async_load, loader_thread, threads, out, yielded>>

(***************************************************************************)
(* The data folders iteration starts from: one id item whose slices        *)
(* 1..n each have an image alone ("D"), an image and both contours         *)
(* ("DIO"), an inner contour alone ("I"), or an image and an inner contour *)
(* file that does not parse ("DX").                                        *)
(***************************************************************************)
SliceKinds == {"D", "DIO", "I", "DX"}

SliceDirs(kinds) ==
    LET n == Len(kinds)
        dcm == {i \in 1..n : kinds[i] \in {"D", "DIO", "DX"}}
        ic == {i \in 1..n : kinds[i] \in {"DIO", "I", "DX"}}
        oc == {i \in 1..n : kinds[i] = "DIO"}
        icfiles == LET ids == Sorted(ic)
                   IN  [k \in DOMAIN ids |->
                          File(Name("icontour", ids[k], 0, FALSE),
                               IF kinds[ids[k]] = "DX" THEN Garbage
                               ELSE ContourBody(Triangle))]
    IN  [d \in DirPaths |->
            IF d = DicomDir(Pid1) THEN Dir(Base("dcm", dcm))
            ELSE IF d = IContourDir(Oid1) THEN Dir(icfiles)
            ELSE IF d = OContourDir(Oid1) THEN Dir(Base("ocontour", oc))
            ELSE NoDir]

IterDisks ==
    {MkTree("dir", "file", "dir", "dir", OneRow, SliceDirs(kinds)) :
        kinds \in UNION {[1..n -> SliceKinds] : n \in 0..MaxRecords}}

(***************************************************************************)
(* The specification of iteration: a parser constructed over a data        *)
(* folder, in either mode, and a consumer that runs passes one after the   *)
(* other, to the end or not.                                               *)
(***************************************************************************)
Init ==
    /\ tree \in IterDisks
    /\ parser = "built"
    /\ id_list = __init__(tree).id_list
    /\ recs = __init__(tree).recs
    /\ record_list = [i \in DOMAIN recs |-> i]
    /\ call = <<>>
    /\ sids_res = <<>>
    /\ async_load \in BOOLEAN
    /\ loader_thread = 0
    /\ threads = [tid \in ThreadIds |-> NoThread]
    /\ gen = NoGen
    /\ out = NoBatch
    /\ yielded = <<>>
    /\ access = NoAccess

Next ==
    \/ NewPass
    \/ Begin
    \/ ShuffleStep
    \/ LoopSync
    \/ LoopAsync
    \/ LoopEnd
    \/ Emit
    \/ Resume
    \/ InvalidateStep
    \/ Final
    \/ Abandon
    \/ \E tid \in ThreadIds : WorkerPick(tid)
    \/ \E tid \in ThreadIds : WorkerLoad(tid)

Spec == Init /\ [][Next]_vars

(***************************************************************************)
(* One pass with a consumer that asks for every batch: the threads are     *)
(* scheduled, the generator's code runs on, and the consumer neither       *)
(* leaves its loop early nor starts a second pass.                         *)
(***************************************************************************)
FirstPass == gen.pc = "none" /\ NewPass

NextLive ==
    \/ FirstPass
    \/ Begin
    \/ ShuffleStep
    \/ LoopSync
    \/ LoopAsync
    \/ LoopEnd
    \/ Emit
    \/ Resume
    \/ InvalidateStep
    \/ Final
    \/ \E tid \in ThreadIds : WorkerPick(tid)
    \/ \E tid \in ThreadIds : WorkerLoad(tid)

SpecLive == Init /\ [][NextLive]_vars /\ WF_vars(NextLive)

(***************************************************************************)
(* Direct use of a Record: load_data, clear_data and the data property,    *)
(* called on the records of a parser built over a folder with one slice.   *)
(***************************************************************************)
\* [exc, heap, raster]: Record.load_data on the object r
load_data(heap, t, r) ==
    LET res == _parse_dicom_and_contour_files(t, heap[r].filenames)
    IN  [exc |-> res.exc,
         heap |-> IF res.exc = "none" THEN SetData(heap, r, res.val) ELSE heap,
         raster |-> RasterCalls(t, heap[r].filenames)]

\* r.load_data()
LoadData(r) ==
    /\ LET res == load_data(recs, tree, r)
       IN  /\ recs' = res.heap
           /\ access' = [op |-> "load_data", r |-> r, exc |-> res.exc, loads |-> 1,
                         ret |-> None, raster |-> res.raster]
    /\ UNCHANGED <<tree, parser, id_list, record_list, sidsVars, iterVars>>

\* r.clear_data()
ClearData(r) ==
    /\ recs' = clear_data(recs, r)
    /\ access' = [op |-> "clear_data", r |-> r, exc |-> "none", loads |-> 0,
                  ret |-> None, raster |-> <<>>]
    /\ UNCHANGED <<tree, parser, id_list, record_list, sidsVars, iterVars>>

\* if self._data is None
AlwaysLoad(rec) == TRUE

NeedsLoad(rec) == rec._data = None

\* r.data
ReadData(r) ==
    /\ IF NeedsLoad(recs[r])
       THEN LET res == load_data(recs, tree, r)
            IN  /\ recs' = res.heap
                /\ access' = [op |-> "data", r |-> r, exc |-> res.exc, loads |-> 1,
                              ret |-> IF res.exc = "none" THEN res.heap[r]._data ELSE None,
                              raster |-> res.raster]
       ELSE /\ recs' = recs
            /\ access' = [op |-> "data", r |-> r, exc |-> "none", loads |-> 0,
                          ret |-> recs[r]._data, raster |-> <<>>]
    /\ UNCHANGED <<tree, parser, id_list, record_list, sidsVars, iterVars>>

\* contour files: the polygons (0, 0), (a, 0), (0, b), a and b in halves,
\* and a file with no vertex
Polygons ==
    {<<<<0, 0>>, <<a, 0>>, <<0, b>>>> : a \in 0..MaxCoord, b \in 0..MaxCoord} \cup {<<>>}

ImageBodies == {ImageBody(2, 3), NotDicom, Garbage}

ContourBodies == {ContourBody(pts) : pts \in Polygons} \cup {Garbage}

\* slice 1 of one pair: each of its three files there or not
Slot(kind, bodies) ==
    {<<>>} \cup {<<File(Name(kind, 1, 0, FALSE), b)>> : b \in bodies}

RecordDirs ==
    {[d \in DirPaths |->
        IF d = DicomDir(Pid1) THEN Dir(dcm)
        ELSE IF d = IContourDir(Oid1) THEN Dir(ic)
        ELSE IF d = OContourDir(Oid1) THEN Dir(oc)
        ELSE NoDir] :
     dcm \in Slot("dcm", ImageBodies), ic \in Slot("icontour", ContourBodies),
     oc \in Slot("ocontour", ContourBodies)}

RecordDisks == {MkTree("dir", "file", "dir", "dir", OneRow, d) : d \in RecordDirs}

InitRecord ==
    /\ tree \in RecordDisks
    /\ parser = "built"
    /\ id_list = __init__(tree).id_list
    /\ recs = __init__(tree).recs
    /\ record_list = [i \in DOMAIN recs |-> i]
    /\ call = <<>>
    /\ sids_res = <<>>
    /\ async_load = FALSE
    /\ loader_thread = 0
    /\ threads = [tid \in 1..MaxThreads |-> [alive |-> FALSE, i |-> 0, high |-> 0, busy |-> 0]]
    /\ gen = [pc |-> "none"]
    /\ out = <<>>
    /\ yielded = <<>>
    /\ access = NoAccess

NextRecord ==
    \/ \E r \in DOMAIN recs : LoadData(r)
    \/ \E r \in DOMAIN recs : ClearData(r)
    \/ \E r \in DOMAIN recs : ReadData(r)

SpecRecord == InitRecord /\ [][NextRecord]_vars

(***************************************************************************)
(* Claims about iteration.                                                 *)
(***************************************************************************)
PassDone == gen.pc = "done"

\* the record objects, and the items, of all batches handed out so far
YieldedRefs == Concat([k \in DOMAIN yielded |-> yielded[k].refs])

YieldedItems == Concat([k \in DOMAIN yielded |-> yielded[k].items])

\* the records of the index as constructed
Index == __init__(tree).recs

Count(s, x) == Cardinality({k \in DOMAIN s : s[k] = x})

\* C1: one complete pass yields every record of the list exactly once, for
\* any batch size and in either mode: the yielded entries are a permutation
\* of the record list, their number is its length, and the tags of any
\* complete pass are the tags of the index.
C1_Permutation ==
    PassDone =>
        /\ Len(YieldedRefs) = Len(Index)
        /\ \A r \in DOMAIN recs : Count(YieldedRefs, r) = 1
        /\ gen.tag_records =>
            \A r \in DOMAIN Index :
                Count([k \in DOMAIN YieldedItems |-> YieldedItems[k][1]], Tag(Index[r])) = 1

\* a complete asynchronous pass over three records in batches of two
C1_Witness ==
    /\ PassDone
    /\ async_load
    /\ gen.tag_records
    /\ Len(Index) = 3
    /\ gen.batch_size = 2

\* the data of a yielded item
ItemData(item) == IF gen.tag_records THEN item[2] ELSE item

LoadOf(r) == _parse_dicom_and_contour_files(tree, recs[r].filenames)

\* C2: at the moment a batch is yielded, in either mode, the load of every
\* record in it has run to completion: each entry's data is present, and no
\* loader thread is still at work on the batch.
C2_LoadedAtYield ==
    gen.pc = "yielded" =>
        /\ \A k \in DOMAIN out.items : ItemData(out.items[k]) # None
        /\ \A tid \in Running :
            \/ threads[tid].i >= gen.prepared_batch[2]
            \/ threads[tid].high <= gen.prepared_batch[1]

\* C3: when the load of a record fails during a pass, in either mode, the
\* pass does not go on silently: no batch is ever yielded that holds a
\* record whose load failed, or an entry whose data is not what its load
\* returns.
C3_FailureSurfaced ==
    \A b \in DOMAIN yielded : \A k \in DOMAIN yielded[b].refs :
        /\ LoadOf(yielded[b].refs[k]).exc = "none"
        /\ ItemData(yielded[b].items[k]) = LoadOf(yielded[b].refs[k]).val

\* the positions (0-based) of the list whose record is Loaded
LoadedAt == {i \in 0..(Len(record_list) - 1) : recs[record_list[i + 1]]._data # None}

InPass == gen.pc \in {"shuffle", "loop", "emit", "yielded", "invalidate", "final", "done"}

\* the first position of the batch being consumed, or about to be
Consumed == IF gen.prepared_batch = None THEN 0 ELSE gen.prepared_batch[1]

\* C4: during a pass that starts with every record Unloaded, in either
\* mode, the Loaded records lie in at most two consecutive batches (so
\* there are at most 2 x batch_size of them), and every batch earlier than
\* the one being consumed is entirely Unloaded.
C4_TwoBatches ==
    (InPass /\ gen.clean) =>
        /\ \E k \in 0..MaxRecords :
              \A i \in LoadedAt : (i \div gen.batch_size) \in {k, k + 1}
        /\ Cardinality(LoadedAt) <= 2 * gen.batch_size
        /\ \A i \in LoadedAt : i >= Consumed

\* C5: in asynchronous mode at most one loader thread is running at any
\* time, over every sequence of batches and of iterator invocations on the
\* parser: a thread is started only once the one before it has ended.
C5_OneLoader == Cardinality(Running) <= 1

\* a new pass stands at its first batch while the thread an abandoned pass
\* left behind is still loading: the join holds it back
C5_Witness ==
    /\ gen.pc = "loop"
    /\ gen.low = 0
    /\ gen.num_records > 0
    /\ Running # {}

\* C6: the records of a batch are cleared only after the batch has been
\* handed to the consumer (a record becomes Unloaded only in the release of
\* the batch handed out last), they are all Unloaded when the next batch is
\* yielded or the pass signals exhaustion, and so after a complete pass
\* every record of the list is Unloaded.
ClearedOnlyAfterYield ==
    \A r \in DOMAIN recs :
        (recs[r]._data # None /\ recs'[r]._data = None) =>
            /\ gen.pc = "invalidate"
            /\ \E k \in DOMAIN out.refs : out.refs[k] = r

ClearedBeforeNext ==
    /\ (gen.pc = "yielded" /\ Len(yielded) >= 2) =>
            \A k \in DOMAIN yielded[Len(yielded) - 1].refs :
                recs[yielded[Len(yielded) - 1].refs[k]]._data = None
    /\ PassDone => AllUnloaded

C6_Release == [][ClearedOnlyAfterYield]_vars /\ []ClearedBeforeNext

\* the second batch of a pass is out, the first one loaded and released
C6_Witness ==
    /\ gen.pc = "yielded"
    /\ Len(yielded) = 2
    /\ Len(yielded[1].refs) = 2
    /\ ItemData(yielded[1].items[1]) # None
    /\ ItemData(yielded[1].items[2]) # None

\* no record of the index fails to load: the folders on which a
\* synchronous pass gets to its end
AllLoadable == \A r \in DOMAIN recs : LoadOf(r).exc = "none"

\* C7: on the same index a complete asynchronous pass and a complete
\* synchronous pass yield the same (tag, data) entries: a synchronous pass
\* completes only where every record loads, and there a complete pass in
\* either mode yields, for every record, exactly one entry, its tag with
\* the data its files parse to, whatever the shuffle and the thread's
\* scheduling.
C7_SameEntries ==
    /\ (PassDone /\ ~async_load) => AllLoadable
    /\ (PassDone /\ gen.tag_records /\ AllLoadable) =>
        /\ Len(YieldedItems) = Len(recs)
        /\ \A r \in DOMAIN recs :
              Count(YieldedItems, <<Tag(recs[r]), LoadOf(r).val>>) = 1

\* a complete asynchronous pass over three loadable records
C7_Witness ==
    /\ PassDone
    /\ gen.tag_records
    /\ AllLoadable
    /\ async_load
    /\ Len(recs) = 3

CeilDiv(n, b) == (n + b - 1) \div b

PassEnded == gen.pc \in {"done", "raised"}

\* C8: a pass over N records with batch size b ends, when the consumer
\* keeps asking, and a pass that gets to exhaustion has yielded exactly
\* ceil(N/b) batches; every batch but the last has b entries, the last has
\* between 1 and b, and N = 0 yields no batch.
BatchCount ==
    /\ InPass =>
        /\ Len(yielded) <= CeilDiv(Len(recs), gen.batch_size)
        /\ \A k \in DOMAIN yielded :
            IF k < CeilDiv(Len(recs), gen.batch_size)
            THEN Len(yielded[k].items) = gen.batch_size
            ELSE Len(yielded[k].items) \in 1..gen.batch_size
    /\ PassDone => Len(yielded) = CeilDiv(Len(recs), gen.batch_size)
    /\ (InPass /\ Len(recs) = 0) => yielded = <<>>

\* a measure of the work a pass has left: the generator's place, the
\* batches still to come, and the loads the running threads still owe
Phase ==
    CASE gen.pc = "none" -> 5
      [] gen.pc = "created" -> 4
      [] gen.pc = "shuffle" -> 3
      [] gen.pc \in {"done", "raised", "closed"} -> 0
      [] gen.pc \in {"yielded", "invalidate"} /\ gen.last -> 1
      [] OTHER -> 2

Remaining == IF gen.low < gen.num_records THEN gen.num_records - gen.low ELSE 0

Place ==
    CASE gen.pc = "loop" -> 4
      [] gen.pc = "emit" -> 3
      [] gen.pc = "yielded" -> 2
      [] gen.pc = "invalidate" -> 1
      [] OTHER -> 0

Inner ==
    CASE gen.pc = "shuffle" -> gen.i
      [] gen.pc = "invalidate" -> ClampHigh(gen.prepared_batch[2], record_list) - gen.i
      [] OTHER -> 0

RECURSIVE Owed(_)
Owed(T) ==
    IF T = {} THEN 0
    ELSE LET tid == Min(T)
             th == threads[tid]
         IN  2 * (th.high - th.i) - (IF th.busy # 0 THEN 1 ELSE 0) + Owed(T \ {tid})

Rank == Phase * 1000000 + Remaining * 10000 + Place * 1000 + Inner * 100 + Owed(Running)

\* some step of the pass can be taken (LoopSync and WorkerLoad by their
\* guards: what they assign is defined in every state)
CanStep ==
    \/ ENABLED (FirstPass \/ Begin \/ ShuffleStep \/ LoopAsync \/ LoopEnd \/ Emit
                \/ Resume \/ InvalidateStep \/ Final
                \/ \E tid \in ThreadIds : WorkerPick(tid))
    \/ (gen.pc = "loop" /\ gen.low < gen.num_records /\ ~async_load)
    \/ \E tid \in ThreadIds : threads[tid].alive /\ threads[tid].busy # 0

C8_Batches ==
    /\ []BatchCount
    /\ [](PassEnded \/ CanStep)
    /\ [][Rank' < Rank]_vars

\* three records in batches of two: a full batch, then a batch of one
C8_Witness ==
    /\ PassDone
    /\ Len(recs) = 3
    /\ gen.batch_size = 2
    /\ Len(yielded) = 2
    /\ Len(yielded[2].items) = 1

(***************************************************************************)
(* Claims about the folder scan.                                           *)
(***************************************************************************)
Constructed == parser # "unbuilt"

FourHold ==
    /\ tree.root = "dir"
    /\ tree.link = "file"
    /\ tree.dicoms = "dir"
    /\ tree.contours = "dir"

\* C9: constructing DicomContourParser raises InvalidDataFolder and builds
\* no record list whenever the root is no directory, link.csv is no file in
\* it, or the image or the contour subdirectory is no directory; when all
\* four hold, construction does not raise InvalidDataFolder.
C9_InvalidDataFolder ==
    Constructed =>
        /\ ~FourHold =>
            /\ parser = "InvalidDataFolder"
            /\ record_list = <<>>
            /\ recs = <<>>
        /\ FourHold => parser # "InvalidDataFolder"

\* a folder whose contour subdirectory alone is wrong was refused
C9_Witness ==
    /\ parser = "InvalidDataFolder"
    /\ tree.root = "dir"
    /\ tree.link = "file"
    /\ tree.dicoms = "dir"
    /\ tree.contours # "dir"

\* the numbers a pattern extracts from the regular files of a directory
IdsIn(directory, kind) ==
    {e.name.id : e \in {x \in Range(tree.dir[directory].entries) :
                            x.isfile /\ x.name.kind = kind}}

CallIds == IdsIn(call[1], "dcm") \cup IdsIn(call[2], "icontour") \cup IdsIn(call[3], "ocontour")

\* C10: _get_valid_sids returns one tuple per id of the union of the ids
\* extracted from the three directories, in strictly ascending order with no
\* id repeated, and in each tuple a modality's filename is present exactly
\* when the id was extracted from that modality's directory.
C10_ValidSids ==
    call # <<>> =>
        /\ {sids_res[i][1] : i \in DOMAIN sids_res} = CallIds
        /\ Len(sids_res) = Cardinality(CallIds)
        /\ \A i, j \in DOMAIN sids_res : i < j => sids_res[i][1] < sids_res[j][1]
        /\ \A i \in DOMAIN sids_res :
            /\ sids_res[i][2] # NoFile <=> sids_res[i][1] \in IdsIn(call[1], "dcm")
            /\ sids_res[i][3] # NoFile <=> sids_res[i][1] \in IdsIn(call[2], "icontour")
            /\ sids_res[i][4] # NoFile <=> sids_res[i][1] \in IdsIn(call[3], "ocontour")

\* image ids {1,2,3}, inner ids {2,3}, outer ids {3} gave 1: image only,
\* 2: image and inner, 3: all three
C10_Witness ==
    /\ call # <<>>
    /\ IdsIn(call[1], "dcm") = {1, 2, 3}
    /\ IdsIn(call[2], "icontour") = {2, 3}
    /\ IdsIn(call[3], "ocontour") = {3}
    /\ Len(sids_res) = 3
    /\ sids_res[1][2] # NoFile /\ sids_res[1][3] = NoFile /\ sids_res[1][4] = NoFile
    /\ sids_res[2][2] # NoFile /\ sids_res[2][3] # NoFile /\ sids_res[2][4] = NoFile
    /\ sids_res[3][2] # NoFile /\ sids_res[3][3] # NoFile /\ sids_res[3][4] # NoFile

(***************************************************************************)
(* Claims about the records _parse builds.                                 *)
(***************************************************************************)
Built == parser \in {"built", "reparsed"}

\* how many rows of link.csv hold the pair, and how many records carry it
RowsOf(p, o) == Cardinality({i \in DOMAIN id_list : id_list[i] = <<p, o>>})

RecordsOf(p, o) ==
    Cardinality({r \in DOMAIN recs : recs[r].patient_id = p /\ recs[r].original_id = o})

\* the ids the three patterns extract from a pair's directories
PairIds(p, o) ==
    IdsIn(DicomDir(p), "dcm") \cup IdsIn(IContourDir(o), "icontour")
        \cup IdsIn(OContourDir(o), "ocontour")

IsDirAt(d) == tree.dir[d].kind = "dir"

IsMissingAt(d) == tree.dir[d].kind = "missing"

\* link.csv reads, and no directory of a listed pair is a regular file
Scannable ==
    /\ FourHold
    /\ ReadLink(tree.link_text).exc = "none"
    /\ \A i \in DOMAIN tree.link_text.rows :
        /\ tree.dir[DicomDir(tree.link_text.rows[i][1])].kind # "file"
        /\ tree.dir[IContourDir(tree.link_text.rows[i][2])].kind # "file"
        /\ tree.dir[OContourDir(tree.link_text.rows[i][2])].kind # "file"

FragmentLen(k) ==
    IF IsDirAt(DicomDir(id_list[k][1])) /\ IsDirAt(IContourDir(id_list[k][2]))
       /\ IsDirAt(OContourDir(id_list[k][2]))
    THEN Cardinality(PairIds(id_list[k][1], id_list[k][2]))
    ELSE 0

\* the number of records that stand before the fragment of row k
RECURSIVE Offset(_)
Offset(k) == IF k <= 1 THEN 0 ELSE Offset(k - 1) + FragmentLen(k - 1)

\* C12: after construction and after any re-run of _parse the record list
\* is the concatenation, in the order of link.csv and with duplicate rows
\* kept, of one fragment per pair that is not skipped; within a fragment
\* the serial ids are strictly increasing; a re-run rebuilds the list and
\* does not append to it.
C12_Concatenation ==
    Built =>
        /\ Len(recs) = Offset(Len(id_list) + 1)
        /\ record_list = [i \in DOMAIN recs |-> i]
        /\ \A k \in DOMAIN id_list : \A j \in 1..FragmentLen(k) :
            /\ recs[Offset(k) + j].patient_id = id_list[k][1]
            /\ recs[Offset(k) + j].original_id = id_list[k][2]
            /\ recs[Offset(k) + j].serial_id \in PairIds(id_list[k][1], id_list[k][2])
            /\ j > 1 => recs[Offset(k) + j - 1].serial_id < recs[Offset(k) + j].serial_id

\* _parse was run again on a folder whose link.csv holds one pair twice
C12_Witness ==
    /\ parser = "reparsed"
    /\ Len(id_list) = 2
    /\ id_list[1] = id_list[2]
    /\ FragmentLen(1) >= 2
    /\ Len(recs) = 2 * FragmentLen(1)

(***************************************************************************)
(* Claims about the order of the stored record list.                       *)
(***************************************************************************)
\* C13: running random_shuffled_iterator, any number of times and whether
\* or not a pass is completed, leaves the order of the stored record list
\* unchanged: in every reachable state self.record_list holds the records
\* in the order _parse built them in.
C13_OrderKept == record_list = [i \in DOMAIN recs |-> i]

\* C16: over every sequence of random_shuffled_iterator invocations on one
\* parser, also one begun while an earlier pass is not exhausted or its
\* loader thread is still loading, the record list is never reordered
\* while a load is in progress: no step changes the order of
\* self.record_list while a loader thread is running, so that the index
\* range a thread was given refers to the same records throughout.
C16_NoReorderUnderLoad == [][(record_list' # record_list) => (Running = {})]_vars

\* the records at the positions lo .. hi - 1 of the list
RecordsAt(lo, hi) == {record_list[j + 1] : j \in lo..(hi - 1)}

\* C17: during an asynchronous pass no record has its load_data, on the
\* loader thread, and its clear_data, on the consumer's thread, running
\* together: while a batch is being released, a running loader thread
\* loads the batch after it and nothing else, the records it still has to
\* load are none of those being cleared, and it is not at work on the
\* record that is cleared next.
C17_NoLoadClearOverlap ==
    gen.pc = "invalidate" =>
        \A tid \in Running :
            /\ threads[tid].busy # record_list[gen.i + 1]
            /\ threads[tid].i >= gen.prepared_batch[2]
            /\ threads[tid].high <= gen.prepared_batch[2] + gen.batch_size
            /\ RecordsAt(threads[tid].i, threads[tid].high)
                    \cap RecordsAt(gen.prepared_batch[1], gen.prepared_batch[2]) = {}

\* the loader thread is in load_data on a record of the next batch while
\* the consumer's thread clears the batch it was handed
C17_Witness ==
    /\ gen.pc = "invalidate"
    /\ async_load
    /\ gen.batch_size = 2
    /\ gen.i = gen.prepared_batch[1] + 1
    /\ \E tid \in Running : threads[tid].busy # 0

(***************************************************************************)
(* Claims about what a record loads.                                       *)
(***************************************************************************)
\* what the file a filename points at holds, Garbage where it points nowhere
BodyAt(filename) ==
    IF filename = NoFile \/ ReadFile(tree, filename) = {} THEN Garbage
    ELSE CHOOSE b \in ReadFile(tree, filename) : TRUE

\* the record's image file is present and decodes
ImageDecodes(r) == has_dicom(recs[r]) /\ BodyAt(recs[r].filenames[1]).form = "image"

ImageShape(r) == <<BodyAt(recs[r].filenames[1]).h, BodyAt(recs[r].filenames[1]).w>>

Loaded(r) == recs[r]._data # None

AllFalse(grid) == grid.dtype = "bool" /\ grid.fill = "zeros"

\* the slice of the record has a file of the kind on disk
OnDisk(r, directory, kind) == recs[r].serial_id \in IdsIn(directory, kind)

ImageOnly(r) ==
    /\ OnDisk(r, DicomDir(recs[r].patient_id), "dcm")
    /\ ~OnDisk(r, IContourDir(recs[r].original_id), "icontour")
    /\ ~OnDisk(r, OContourDir(recs[r].original_id), "ocontour")

\* C14: a record whose image file is present and decodes loads to three
\* grids of the image's height x width; the inner (outer) mask is all
\* false when the inner (outer) contour filename is absent; an image-only
\* record has has_dicom() true, has_icontour() and has_ocontour() false,
\* its load does not fail and both its masks are all false.
C14_ImageShaped ==
    \A r \in DOMAIN recs :
        /\ (Loaded(r) /\ ImageDecodes(r)) =>
            /\ Len(recs[r]._data) = 3
            /\ \A k \in 1..3 : recs[r]._data[k].shape = ImageShape(r)
            /\ recs[r]._data[1].dtype = "int16"
            /\ ~has_icontour(recs[r]) => AllFalse(recs[r]._data[2])
            /\ ~has_ocontour(recs[r]) => AllFalse(recs[r]._data[3])
        /\ ImageOnly(r) =>
            /\ has_dicom(recs[r]) /\ ~has_icontour(recs[r]) /\ ~has_ocontour(recs[r])
            /\ (ImageDecodes(r) /\ access.r = r /\ access.loads = 1) =>
                /\ access.exc = "none"
                /\ Loaded(r)
                /\ AllFalse(recs[r]._data[2]) /\ AllFalse(recs[r]._data[3])

\* an image with an inner contour and no outer contour has been loaded:
\* a rasterized inner mask and an all-false outer mask, shaped like it
C14_Witness ==
    \E r \in DOMAIN recs :
        /\ Loaded(r)
        /\ ImageDecodes(r)
        /\ has_icontour(recs[r])
        /\ ~has_ocontour(recs[r])
        /\ recs[r]._data[2].fill = "mask"
        /\ AllFalse(recs[r]._data[3])

\* the record has no image file, and what contour files it has parse
ContourOnly(r) ==
    /\ ~has_dicom(recs[r])
    /\ has_icontour(recs[r]) \/ has_ocontour(recs[r])
    /\ has_icontour(recs[r]) => BodyAt(recs[r].filenames[2]).form = "contour"
    /\ has_ocontour(recs[r]) => BodyAt(recs[r].filenames[3]).form = "contour"

\* the grid of a contour the record has: the inner one if there is one
RasterizedOf(r) ==
    IF has_icontour(recs[r]) THEN recs[r]._data[2] ELSE recs[r]._data[3]

\* C15: the load of a record with no image and at least one contour file
\* completes without error and leaves the record Loaded, with a
\* zero-filled int16 image grid of the rasterized contour's dimensions and
\* an all-false grid of those dimensions for a contour that is absent.
C15_ContourOnlyLoads ==
    \A r \in DOMAIN recs :
        (ContourOnly(r) /\ access.r = r /\ access.loads = 1) =>
            /\ access.exc = "none"
            /\ Loaded(r)
            /\ recs[r]._data[1].dtype = "int16"
            /\ recs[r]._data[1].fill = "zeros"
            /\ recs[r]._data[1].shape = RasterizedOf(r).shape
            /\ ~has_icontour(recs[r]) =>
                    AllFalse(recs[r]._data[2])
                    /\ recs[r]._data[2].shape = RasterizedOf(r).shape
            /\ ~has_ocontour(recs[r]) =>
                    AllFalse(recs[r]._data[3])
                    /\ recs[r]._data[3].shape = RasterizedOf(r).shape

\* the largest x and the largest y of a contour's vertices, in halves, and
\* not below 0
MaxX(polygon) == Max({0} \cup {polygon[i][1] : i \in DOMAIN polygon})

MaxY(polygon) == Max({0} \cup {polygon[i][2] : i \in DOMAIN polygon})

\* C18: for a record loaded without an image, the dimensions handed to the
\* rasterizer for a contour follow x = column and y = row: width is
\* round(max x + 1) and height is round(max y + 1) over the contour's
\* vertices, so that every vertex (x, y) with non-negative integer
\* coordinates has x < width and y < height.
C18_AxesOfContourGrid ==
    \A r \in DOMAIN recs :
        (~has_dicom(recs[r]) /\ access.r = r /\ access.loads = 1) =>
            \A c \in DOMAIN access.raster :
                LET a == access.raster[c]
                IN  /\ a.width = PyRound(MaxX(a.polygon) + 2)
                    /\ a.height = PyRound(MaxY(a.polygon) + 2)
                    /\ \A i \in DOMAIN a.polygon :
                        (a.polygon[i][1] % 2 = 0 /\ a.polygon[i][2] % 2 = 0) =>
                            /\ a.polygon[i][1] \div 2 < a.width
                            /\ a.polygon[i][2] \div 2 < a.height

(***************************************************************************)
(* Claims about the Record object.                                         *)
(***************************************************************************)
\* a step that is the read of r.data
ReadStep(r) == access'.op = "data" /\ access'.r = r /\ <<recs, access>>' # <<recs, access>>

\* a read of data on an Unloaded record runs one load and, unless the load
\* raises, leaves the record Loaded with what it returns; a read on a
\* Loaded record runs no load and returns the cached tuple
ReadsLoadOnce ==
    \A r \in DOMAIN recs :
        ReadStep(r) =>
            IF recs[r]._data = None
            THEN /\ access'.loads = 1
                 /\ access'.exc = "none" =>
                        recs'[r]._data # None /\ access'.ret = recs'[r]._data
                 /\ access'.exc # "none" => recs' = recs
            ELSE /\ access'.loads = 0
                 /\ access'.exc = "none"
                 /\ access'.ret = recs[r]._data
                 /\ recs' = recs

\* clear_data on an Unloaded record changes nothing
ClearIdempotent ==
    \A r \in DOMAIN recs :
        (access'.op = "clear_data" /\ access'.r = r /\ recs[r]._data = None) => recs' = recs

\* a Loaded record stays as it is until clear_data is called on it
CachedUntilCleared ==
    \A r \in DOMAIN recs :
        (recs[r]._data # None /\ recs'[r]._data # recs[r]._data) =>
            access'.op \in {"clear_data", "load_data"} /\ access'.r = r

\* the identity fields and the three predicates are those of construction
IdentityKept ==
    /\ DOMAIN recs = DOMAIN Index
    /\ \A r \in DOMAIN recs :
        /\ recs[r].patient_id = Index[r].patient_id
        /\ recs[r].original_id = Index[r].original_id
        /\ recs[r].serial_id = Index[r].serial_id
        /\ recs[r].filenames = Index[r].filenames
        /\ has_dicom(recs[r]) = has_dicom(Index[r])
        /\ has_icontour(recs[r]) = has_icontour(Index[r])
        /\ has_ocontour(recs[r]) = has_ocontour(Index[r])

PlacesOf(d, kind, id) ==
    {i \in DOMAIN tree.dir[call[d]].entries :
        /\ tree.dir[call[d]].entries[i].isfile
        /\ tree.dir[call[d]].entries[i].name.kind = kind
        /\ tree.dir[call[d]].entries[i].name.id = id}

\* the path of the file listed last among them
LastListed(d, kind, id) ==
    Join(call[d], tree.dir[call[d]].entries[Max(PlacesOf(d, kind, id))].name)

KindOf(d) == IF d = 1 THEN "dcm" ELSE IF d = 2 THEN "icontour" ELSE "ocontour"

\* C20: when several files listed in one modality directory yield the same
\* serial id, _get_valid_sids returns exactly one tuple for that id, and
\* its filename for that modality is that of the file listed last, for
\* each of the three modalities.
C20_LastListedWins ==
    call # <<>> =>
        \A d \in 1..3 : \A id \in 1..MaxId :
            Cardinality(PlacesOf(d, KindOf(d), id)) >= 2 =>
                /\ Cardinality({i \in DOMAIN sids_res : sids_res[i][1] = id}) = 1
                /\ \A i \in DOMAIN sids_res :
                        sids_res[i][1] = id =>
                            sids_res[i][d + 1] = LastListed(d, KindOf(d), id)

(***************************************************************************)
(* Claims about the batches the consumer keeps.                            *)
(***************************************************************************)
\* the batch handed out last, as it was at its yield
AtYield == yielded[Len(yielded)]

\* the records of the batch handed out last have all been released
Released ==
    /\ gen.pc \in {"loop", "emit", "final", "done"}
    /\ \A k \in DOMAIN out.refs : recs[out.refs[k]]._data = None

HasAFile(r) == has_dicom(recs[r]) \/ has_icontour(recs[r]) \/ has_ocontour(recs[r])

\* how many of its three filenames the record has
FileCount(r) == Cardinality({m \in 1..3 : recs[r].filenames[m] # NoFile})

\* a filename the record has is there because a file of the record's
\* serial id lies in that modality's directory of the record's pair
FromItsDirectory(r) ==
    /\ has_dicom(recs[r]) => OnDisk(r, DicomDir(recs[r].patient_id), "dcm")
    /\ has_icontour(recs[r]) => OnDisk(r, IContourDir(recs[r].original_id), "icontour")
    /\ has_ocontour(recs[r]) => OnDisk(r, OContourDir(recs[r].original_id), "ocontour")

\* C22: every record of the list the parser built has at least one of its
\* three filenames, each one it has coming from that modality's directory;
\* a record with no image file and no contour file is never in the list.
C22_SomeFilePresent ==
    Built =>
        \A k \in DOMAIN record_list :
            /\ HasAFile(record_list[k])
            /\ FileCount(record_list[k]) >= 1
            /\ FromItsDirectory(record_list[k])
            /\ recs[record_list[k]].filenames # <<NoFile, NoFile, NoFile>>

\* a scanned pair gave a record with the image alone, one with the outer
\* contour alone and one with all three files
C22_Witness ==
    /\ Built
    /\ \E i, j, k \in DOMAIN record_list :
        /\ FileCount(record_list[i]) = 1 /\ has_dicom(recs[record_list[i]])
        /\ FileCount(record_list[j]) = 1 /\ has_ocontour(recs[record_list[j]])
        /\ FileCount(record_list[k]) = 3

====
